---- MODULE Spec2Model ----
\* A model of lxmfy_js8call_bot/bot.py (class JS8CallBot): the subscription
\* registry (distro_list, user_groups, muted_users) with its write-through
\* store, the classification and fan-out of RX.DIRECTED radio events, and the
\* socket read loop of the radio link.
\*
\* Text is modelled as a sequence of one-character strings, so that split,
\* strip, lower, startswith and the substring test are computed as Python
\* computes them.  A dict built on defaultdict(set) is modelled as a total
\* function from users to sets: a missing key and an empty set are read alike
\* by every lookup of the source (lines 89-90, 101-102, 117, 137-138, 153, 165,
\* 366, 392-393).
EXTENDS Integers, Sequences, FiniteSets, TLC

\* ---------------------------------------------------------------- bounds
NumUsers == 2
MaxHistory == 2
MaxLen == 5
MaxLines == 2
MaxSaveErrors == 1
MaxLeaked == 1

Users == 1..NumUsers

\* ------------------------------------------------------------------ text
UpperLetters == <<"A", "B", "C", "D", "E", "F", "G", "H", "I", "J", "K", "L", "M",
                  "N", "O", "P", "Q", "R", "S", "T", "U", "V", "W", "X", "Y", "Z">>
LowerLetters == <<"a", "b", "c", "d", "e", "f", "g", "h", "i", "j", "k", "l", "m",
                  "n", "o", "p", "q", "r", "s", "t", "u", "v", "w", "x", "y", "z">>

\* str.lower() as a table from the upper-case letters
LowerOf ==
  [c \in {UpperLetters[i] : i \in 1..Len(UpperLetters)} |->
     LowerLetters[CHOOSE i \in 1..Len(UpperLetters) : UpperLetters[i] = c]]

\* str.lower() on one character
LowerChar(c) == IF c \in DOMAIN LowerOf THEN LowerOf[c] ELSE c

LowerStr(s) == [i \in 1..Len(s) |-> LowerChar(s[i])]

IsSpace(c) == c \in {" ", "\n", "\r", "\t"}

RECURSIVE LStrip(_)
LStrip(s) == IF s # <<>> /\ IsSpace(Head(s)) THEN LStrip(Tail(s)) ELSE s

RECURSIVE RStrip(_)
RStrip(s) ==
  IF s # <<>> /\ IsSpace(s[Len(s)]) THEN RStrip(SubSeq(s, 1, Len(s) - 1)) ELSE s

\* str.strip()
Strip(s) == RStrip(LStrip(s))

\* str.startswith(p)
StartsWith(s, p) == Len(p) <= Len(s) /\ SubSeq(s, 1, Len(p)) = p

\* the Python test  w in s  on strings
Contains(s, w) ==
  \E i \in 0..(Len(s) - Len(w)) : SubSeq(s, i + 1, i + Len(w)) = w

\* str.split(sep) for a one-character separator: always at least one part
RECURSIVE SplitOn(_, _)
SplitOn(s, sep) ==
  IF \A i \in 1..Len(s) : s[i] # sep
  THEN <<s>>
  ELSE LET k == CHOOSE i \in 1..Len(s) :
                  s[i] = sep /\ \A j \in 1..(i - 1) : s[j] # sep
       IN  <<SubSeq(s, 1, k - 1)>> \o SplitOn(SubSeq(s, k + 1, Len(s)), sep)

\* sep.join(parts)
RECURSIVE JoinWith(_, _)
JoinWith(parts, sep) ==
  IF parts = <<>> THEN <<>>
  ELSE IF Len(parts) = 1 THEN parts[1]
  ELSE parts[1] \o <<sep>> \o JoinWith(Tail(parts), sep)

Range(q) == {q[i] : i \in 1..Len(q)}

\* list(a_set): the elements of the set, each once, in an order Python chooses
RECURSIVE SetToList(_)
SetToList(S) ==
  IF S = {} THEN <<>>
  ELSE LET x == CHOOSE y \in S : TRUE IN <<x>> \o SetToList(S \ {x})

\* --------------------------------------------------------- configuration
\* group names used by the configuration below
gTE  == <<"T", "E">>
gTET == <<"T", "E", "T">>
gT   == <<"T">>
gZZ  == <<"Z", "Z">>

\* config.ini [js8call] js8groups: the ordinary catalog, in catalog order
js8groups == <<gTET, gTE>>
\* config.ini [js8call] js8urgent: the urgent catalog
js8urgent == <<gT>>
\* config.ini [bot] default_groups, after the split and the strip
default_groups == <<gTE>>
\* the configured blocked words
blocked_words == << <<"X", "x">> >>


\* ------------------------------------------------------------------ state
VARIABLES
  distro_list,   \* self.distro_list: set of users
  user_groups,   \* self.user_groups: user -> set of group names
  muted_users,   \* self.muted_users: user -> set of group names
  storage,       \* the value stored under the key 'users' of self.storage
  storeError,    \* the "load" and the "save"s that have raised, and been logged, so far
  history,       \* the rows written by self.db.insert_message, oldest first
  sends,         \* user -> number of self.send calls made to it by the latest handler
  sentText,      \* what the latest handler handed to self.send
  failed,        \* users for which a self.send of the latest handler failed
  last,          \* the latest handler run and its arguments
  js8call_connected,  \* self.js8call_connected
  js8call_socket,     \* self.js8call_socket: "None" or "socket"
  leaked,        \* the sockets the bot has made, no longer refers to, and that
                 \* are not closed yet
  peer,          \* the radio endpoint's end of the connection: "open" or "closed"
  wire,          \* the bytes the endpoint has sent that recv has not returned yet
  chunk,         \* the bytes the latest recv returned
  handledNow,    \* the events the latest process_js8call_messages handled, in order
  session,       \* the bytes the endpoint sent on the latest connection, and the
                 \* number of events handled from it
  lpc,           \* where js8call_loop stands: "top", "mid", "sleep", "backoff"
  fanout,        \* the _send_to_users call of the radio thread while commands run beside it
  eligibleSeen   \* the eligible sets of the registry states that call has run through

linkVars ==
  <<js8call_connected, js8call_socket, leaked, peer, wire, chunk, handledNow, session,
    lpc>>

raceVars == <<fanout, eligibleSeen>>

vars == <<distro_list, user_groups, muted_users, storage, storeError, history,
          sends, sentText, failed, last, linkVars, raceVars>>

registry == <<distro_list, user_groups, muted_users>>

NoGroups == [u \in Users |-> {}]
NoSends == [u \in Users |-> 0]

\* one self.send(user, text) of a command handler
SendTo(user) == [u \in Users |-> IF u = user THEN 1 ELSE 0]

\* -------------------------------------------------------- store (81-107)
\* the snapshot without the muted groups
Snapshot_NoMutes(dl, ug, mu) ==
  [u \in dl |-> [groups |-> SetToList(ug[u]), muted_groups |-> <<>>]]

\* users_data as save_state_to_storage builds it
Snapshot(dl, ug, mu) ==
  [u \in dl |-> [groups |-> SetToList(ug[u]),
                 muted_groups |-> SetToList(mu[u])]]

\* the save left out of a handler
save_state_to_storage_Skipped(old, dl, ug, mu, ok) == old

\* save_state_to_storage: the store after a save of (dl, ug, mu); the write
\* raises and is only logged when ok is FALSE
save_state_to_storage(old, dl, ug, mu, ok) ==
  IF ok THEN Snapshot(dl, ug, mu) ELSE old

\* load_state_from_storage into an empty registry: the users of `done` are
\* loaded in full; when the loop raises, it may already have added the user
\* of `part` to distro_list without its groups (line 89 raises after line
\* 88), or the user of `half` with its groups and without its muted groups
\* (line 90 raises); the except of line 92 leaves what was loaded in place
load_state_from_storage(users_data, done, part, half) ==
  <<done \cup part \cup half,
    [u \in Users |-> IF u \in done \cup half THEN Range(users_data[u].groups) ELSE {}],
    [u \in Users |-> IF u \in done THEN Range(users_data[u].muted_groups) ELSE {}]>>

\* a load that does not raise
LoadAll(users_data) == load_state_from_storage(users_data, DOMAIN users_data, {}, {})

\* stores a start of the process may find
EmptyStore == [u \in {} |-> [groups |-> <<>>, muted_groups |-> <<>>]]
OldStore ==
  [u \in {1} |-> [groups |-> <<gTE, gT>>, muted_groups |-> <<gTE>>]]
InitialStores == {EmptyStore, OldStore}

\* --------------------------------------------------- registry (109-174)
\* the seeding loop left out
SeedDefaults_None(ug, user) == ug

\* lines 116-117: seed the default groups into the user's membership
SeedDefaults(ug, user) ==
  [ug EXCEPT ![user] = @ \cup Range(default_groups)]

\* add_to_distro_list(user); ok tells whether the write to the store succeeds
add_to_distro_list(user, ok) ==
  /\ IF user \notin distro_list
     THEN /\ distro_list' = distro_list \cup {user}
          /\ user_groups' = SeedDefaults(user_groups, user)
          /\ muted_users' = muted_users
          /\ storage' = save_state_to_storage(storage, distro_list',
                                              user_groups', muted_users', ok)
          /\ storeError' = (IF ok THEN storeError ELSE Append(storeError, "save"))
          /\ sentText' = [kind |-> "welcome"]
     ELSE /\ UNCHANGED <<distro_list, user_groups, muted_users, storage, storeError>>
          /\ sentText' = [kind |-> "already_in_list"]
  /\ sends' = SendTo(user)
  /\ failed' = {}
  /\ last' = [op |-> "add", user |-> user]
  /\ UNCHANGED history

\* the pop of muted_users left out
DropUser_KeepMutes(dl, ug, mu, user) ==
  <<dl \ {user}, [ug EXCEPT ![user] = {}], mu>>

\* lines 136-138: drop the user from the three maps
DropUser(dl, ug, mu, user) ==
  <<dl \ {user}, [ug EXCEPT ![user] = {}], [mu EXCEPT ![user] = {}]>>

\* remove_from_distro_list(user)
remove_from_distro_list(user, ok) ==
  /\ IF user \in distro_list
     THEN /\ distro_list' = DropUser(distro_list, user_groups, muted_users, user)[1]
          /\ user_groups' = DropUser(distro_list, user_groups, muted_users, user)[2]
          /\ muted_users' = DropUser(distro_list, user_groups, muted_users, user)[3]
          /\ storage' = save_state_to_storage(storage, distro_list',
                                              user_groups', muted_users', ok)
          /\ storeError' = (IF ok THEN storeError ELSE Append(storeError, "save"))
          /\ sentText' = [kind |-> "removed"]
     ELSE /\ UNCHANGED <<distro_list, user_groups, muted_users, storage, storeError>>
          /\ sentText' = [kind |-> "not_in_list"]
  /\ sends' = SendTo(user)
  /\ failed' = {}
  /\ last' = [op |-> "remove", user |-> user]
  /\ UNCHANGED history

\* the catalog test of line 152 left out
KnownGroups_Any(groups) == Range(groups)

\* lines 151-153: the names of `groups` the loop adds
KnownGroups(groups) ==
  {g \in Range(groups) : g \in Range(js8groups) \/ g \in Range(js8urgent)}

\* the test of line 150 left out
MayJoinGroups_Anyone(dl, user) == TRUE

\* line 150: only a user of distro_list is added to groups
MayJoinGroups(dl, user) == user \in dl

\* add_user_to_groups(user, groups)
add_user_to_groups(user, groups, ok) ==
  /\ IF MayJoinGroups(distro_list, user)
     THEN /\ user_groups' = [user_groups EXCEPT ![user] = @ \cup KnownGroups(groups)]
          /\ UNCHANGED <<distro_list, muted_users>>
          /\ storage' = save_state_to_storage(storage, distro_list',
                                              user_groups', muted_users', ok)
          /\ storeError' = (IF ok THEN storeError ELSE Append(storeError, "save"))
          /\ sentText' = [kind |-> "added_to_groups"]
     ELSE /\ UNCHANGED <<distro_list, user_groups, muted_users, storage, storeError>>
          /\ sentText' = [kind |-> "join_first"]
  /\ sends' = SendTo(user)
  /\ failed' = {}
  /\ last' = [op |-> "join", user |-> user, groups |-> groups]
  /\ UNCHANGED history

\* every membership of the user removed instead of the one
DropMembership_All(ug, user, group) == [ug EXCEPT ![user] = {}]

\* line 166: self.user_groups[user].remove(group)
DropMembership(ug, user, group) == [ug EXCEPT ![user] = @ \ {group}]

\* remove_user_from_group(user, group)
remove_user_from_group(user, group, ok) ==
  /\ IF user \in distro_list /\ group \in user_groups[user]
     THEN /\ user_groups' = DropMembership(user_groups, user, group)
          /\ UNCHANGED <<distro_list, muted_users>>
          /\ storage' = save_state_to_storage(storage, distro_list',
                                              user_groups', muted_users', ok)
          /\ storeError' = (IF ok THEN storeError ELSE Append(storeError, "save"))
          /\ sentText' = [kind |-> "removed_from_group"]
     ELSE /\ UNCHANGED <<distro_list, user_groups, muted_users, storage, storeError>>
          /\ sentText' = [kind |-> "not_in_group"]
  /\ sends' = SendTo(user)
  /\ failed' = {}
  /\ last' = [op |-> "leave", user |-> user, group |-> group]
  /\ UNCHANGED history

\* the argument lists of /join and the argument of /leave that are tried
JoinArgs == {<<gT>>, <<gTE, gZZ>>}
LeaveArgs == {gTE, gZZ}


\* ------------------------------------------- classification (301-339)
DIRECT == <<"D", "I", "R", "E", "C", "T">>

\* the test of line 315 without the two lower() calls
HasBlockedWord_CaseSensitive(blocked, content) ==
  \E i \in 1..Len(blocked) : Contains(content, blocked[i])

\* line 315: any(word.lower() in content.lower() for word in blocked_words)
HasBlockedWord(blocked, content) ==
  \E i \in 1..Len(blocked) : Contains(LowerStr(content), LowerStr(blocked[i]))

\* any(content.startswith(group) for group in catalog)
AnyPrefix(catalog, content) ==
  \E i \in 1..Len(catalog) : StartsWith(content, catalog[i])

\* the for loop with its break (322-326, 329-333): the first name of the
\* catalog, in catalog order, that content starts with
FirstPrefix(catalog, content) ==
  catalog[CHOOSE i \in 1..Len(catalog) :
            /\ StartsWith(content, catalog[i])
            /\ \A j \in 1..(i - 1) : ~StartsWith(content, catalog[j])]

\* content[len(group):].strip()
StripPrefix(content, group) ==
  Strip(SubSeq(content, Len(group) + 1, Len(content)))

\* the urgent catalog tried before the ordinary one
Scope_UrgentFirst(groups, urgent, content) ==
  IF AnyPrefix(urgent, content) THEN "urgent"
  ELSE IF AnyPrefix(groups, content) THEN "group"
  ELSE "direct"

\* the branch of lines 320-336 taken for an accepted content
Scope(groups, urgent, content) ==
  IF AnyPrefix(groups, content) THEN "group"
  ELSE IF AnyPrefix(urgent, content) THEN "urgent"
  ELSE "direct"

\* handle_js8call_message up to the forward_* call: what one RX.DIRECTED
\* value is turned into under the catalogs and the blocked words given
Classify(groups, urgent, blocked, value) ==
  LET parts   == SplitOn(value, ":")
      sender  == Strip(parts[1])
      content == Strip(JoinWith(Tail(parts), ":"))
      scope   == Scope(groups, urgent, content)
  IN  IF Len(parts) < 2 THEN [scope |-> "invalid"]
      ELSE IF HasBlockedWord(blocked, content) THEN [scope |-> "blocked"]
      ELSE IF scope = "group"
        THEN [scope |-> "group", sender |-> sender,
              group |-> FirstPrefix(groups, content),
              message |-> StripPrefix(content, FirstPrefix(groups, content))]
      ELSE IF scope = "urgent"
        THEN [scope |-> "urgent", sender |-> sender,
              group |-> FirstPrefix(urgent, content),
              message |-> StripPrefix(content, FirstPrefix(urgent, content))]
      ELSE [scope |-> "direct", sender |-> sender, group |-> DIRECT,
            message |-> content]

\* the classification under the configuration of this model
Route(value) == Classify(js8groups, js8urgent, blocked_words, value)

\* ------------------------------------------------------ fan-out (341-368)
\* the mute test of line 366 left out
Recipients_IgnoreMute(dl, ug, mu, group) ==
  {u \in dl : group = DIRECT \/ group \in ug[u]}

\* the loop of line 365 run over every user with a record instead of distro_list
Recipients_AnyUser(dl, ug, mu, group) ==
  {u \in Users : group = DIRECT \/ (group \in ug[u] /\ group \notin mu[u])}

\* _send_to_users: the users a self.send is submitted for; group is DIRECT
\* for the call without a group (group is None)
Recipients(dl, ug, mu, group) ==
  {u \in dl : group = DIRECT \/ (group \in ug[u] /\ group \notin mu[u])}

\* line 367 runs once for each user the loop selects
Submitted(dl, ug, mu, group) ==
  [u \in Users |-> IF u \in Recipients(dl, ug, mu, group) THEN 1 ELSE 0]

\* self.db.insert_message(sender, receiver, message)
insert_message(rows, sender, receiver, message) ==
  Append(rows, [sender |-> sender, receiver |-> receiver, message |-> message])

\* the formatted message of forward_direct/group/urgent_message
Formatted(r) ==
  [kind |-> r.scope, sender |-> r.sender, group |-> r.group, message |-> r.message]

\* a failed send raising out of the fan-out, so that line 345 is not reached
forward_message_AbortOnFailure(rows, r, bad) ==
  IF bad = {} THEN insert_message(rows, r.sender, r.group, r.message) ELSE rows

\* forward_direct_message, forward_group_message, forward_urgent_message
\* after _send_to_users has returned (lines 345, 352, 359): the history row
\* is written whatever the sends did; bad is the set of users whose send
\* failed or raised, which stays in the futures that
\* concurrent.futures.wait collects
forward_message(rows, r, bad) ==
  insert_message(rows, r.sender, r.group, r.message)

\* lines 304-336: what handle_js8call_message makes of an event; events of
\* another type are passed over
RouteEvent(data) ==
  IF data.type = "RX.DIRECTED" THEN Route(data.value) ELSE [scope |-> "ignored"]

\* the event is forwarded: an RX.DIRECTED with a colon and no blocked word
Forwarded(r) == r.scope \in {"group", "urgent", "direct"}

\* lines 304-317 on an event
Accepted(data) == Forwarded(RouteEvent(data))

\* the self.send calls submitted for a routed event, per user
SendsOf(r, dl, ug, mu) ==
  IF Forwarded(r) THEN Submitted(dl, ug, mu, r.group) ELSE NoSends

\* the users a send for a routed event may fail for
MayFail(r, dl, ug, mu) ==
  IF Forwarded(r) THEN Recipients(dl, ug, mu, r.group) ELSE {}

\* the text handed to self.send for a routed event
TextOf(r) == IF Forwarded(r) THEN Formatted(r) ELSE [kind |-> "none"]

\* the history table after a routed event
HistoryAfter(rows, r, bad) ==
  IF Forwarded(r) THEN forward_message(rows, r, bad) ELSE rows

\* handle_js8call_message(data), with the fan-out run to completion
handle_js8call_message(data) ==
  \E r \in {RouteEvent(data)} :
    /\ Len(history) < MaxHistory
    /\ \E bad \in SUBSET MayFail(r, distro_list, user_groups, muted_users) :
         /\ failed' = bad
         /\ history' = HistoryAfter(history, r, bad)
    /\ sends' = SendsOf(r, distro_list, user_groups, muted_users)
    /\ sentText' = TextOf(r)
    /\ last' = [op |-> "rx", type |-> data.type, value |-> data.value]
    /\ UNCHANGED <<distro_list, user_groups, muted_users, storage, storeError>>

\* the radio events that are tried: a direct message, a group message to TE,
\* an urgent message to T, a message with a blocked word, a value without a
\* colon, and an event of another type
vDirect  == <<"N", ":", " ", "o", "k">>
vGroup   == <<"N", ":", "T", "E", " ", "o", "k">>
vUrgent  == <<"N", ":", "T", " ", "o", "k">>
vBlocked == <<"N", ":", "T", "E", " ", "x", "X">>
vNoColon == <<"N", " ", "o", "k">>
RadioEvents ==
  {[type |-> "RX.DIRECTED", value |-> v] :
       v \in {vDirect, vGroup, vUrgent, vBlocked, vNoColon}}
  \cup {[type |-> "RX.ACTIVITY", value |-> vDirect]}

\* --------------------------------------------------- radio link (247-299)
\* The bytes on the wire are modelled as tokens: "{" and "}" open and close a
\* JSON document, "d" stands for the members of an RX.DIRECTED event with the
\* value vDirect, "a" for those of an RX.ACTIVITY event, "\n" ends a line and
\* "xFF" is a byte that is not valid UTF-8.
\* no _send_to_users call is under way
\* abandoned: the users with a send still running that an aborted call had
\* submitted; unrecorded: a forwarded message was left without its history row
NoFanout ==
  [phase |-> "idle", r |-> [scope |-> "ignored"], used |-> 0, order |-> <<>>,
   pos |-> 0, resolved |-> {}, abandoned |-> {}, unrecorded |-> FALSE]

\* no connection has been made
NoSession == [stream |-> <<>>, handled |-> 0]

LinkInit ==
  /\ js8call_connected = FALSE
  /\ js8call_socket = "None"
  /\ leaked = 0
  /\ peer = "closed"
  /\ wire = <<>>
  /\ chunk = <<>>
  /\ handledNow = <<>>
  /\ session = NoSession
  /\ lpc = "top"
  /\ fanout = NoFanout
  /\ eligibleSeen = {}

\* bytes.decode('utf-8') raises UnicodeDecodeError on these chunks
DecodeFails(bytes) == \E i \in 1..Len(bytes) : bytes[i] = "xFF"

JSONDecodeError == [type |-> "JSONDecodeError", value |-> <<>>]

\* json.loads(message): blanks around the document are skipped; an object
\* without members has no 'type'
json_loads(message) ==
  LET doc == Strip(message)
  IN  IF doc = <<"{", "d", "}">> THEN [type |-> "RX.DIRECTED", value |-> vDirect]
      ELSE IF doc = <<"{", "a", "}">> THEN [type |-> "RX.ACTIVITY", value |-> vDirect]
      ELSE IF doc = <<"{", "}">> THEN [type |-> "KeyError", value |-> <<>>]
      ELSE JSONDecodeError

\* lines 286-295: the events the loop over data.strip().split('\n') passes to
\* handle_js8call_message, in order; empty lines and lines json.loads rejects
\* are passed over
RECURSIVE EventsOf(_)
EventsOf(messages) ==
  IF messages = <<>> THEN <<>>
  ELSE IF Head(messages) = <<>> \/ json_loads(Head(messages)) = JSONDecodeError
    THEN EventsOf(Tail(messages))
  ELSE <<json_loads(Head(messages))>> \o EventsOf(Tail(messages))

\* the history table after handle_js8call_message has run on each event
RECURSIVE HistoryAfterAll(_, _)
HistoryAfterAll(rows, events) ==
  IF events = <<>> THEN rows
  ELSE HistoryAfterAll(HistoryAfter(rows, RouteEvent(Head(events)), {}), Tail(events))

\* the streams of lines the endpoint may send on one connection: up to
\* MaxLines of a well-formed RX.DIRECTED line, a truncated line, and a line
\* with a byte that is not UTF-8
WireItems ==
  {<<"{", "d", "}", "\n">>, <<"{", "d", "\n">>, <<"{", "xFF", "}", "\n">>}
RECURSIVE Streams(_)
Streams(n) ==
  IF n = 0 THEN {<<>>}
  ELSE Streams(n - 1) \cup {s \o i : s \in Streams(n - 1), i \in WireItems}

\* the number of lines of a stream that write a history row when handled
Rows(stream) == Len(HistoryAfterAll(<<>>, EventsOf(SplitOn(stream, "\n"))))

\* the sockets self.js8call_socket refers to: none is ever closed by the loop
Referred == IF js8call_socket = "socket" THEN 1 ELSE 0

\* of n sockets that have just lost their last reference, the numbers that may
\* stay open: an object is finalized when the interpreter collects it, at
\* once or later
Dropped(n) == {k \in 0..n : leaked + k <= MaxLeaked}

\* connect_js8call: a socket is made and bound to self.js8call_socket in the
\* place of the one it referred to (line 262); the connect succeeds, and the
\* endpoint starts to send a stream, or it fails and the new socket is dropped
\* too (line 269)
connect_js8call ==
  /\ \/ /\ js8call_connected' = TRUE
        /\ js8call_socket' = "socket"
        /\ \E k \in Dropped(Referred) : leaked' = leaked + k
        /\ peer' = "open"
        /\ \E s \in Streams(MaxLines) :
             /\ Len(history) + Rows(s) <= MaxHistory
             /\ wire' = s
             /\ session' = [stream |-> s, handled |-> 0]
     \/ /\ js8call_connected' = FALSE
        /\ js8call_socket' = "None"
        /\ \E k \in Dropped(Referred + 1) : leaked' = leaked + k
        /\ peer' = "closed"
        /\ wire' = <<>>
        /\ session' = NoSession
  /\ UNCHANGED <<chunk, handledNow>>

\* lines 286-295 on a chunk that decoded: every event is handled in turn
ProcessData(data) ==
  LET events == EventsOf(SplitOn(Strip(data), "\n"))
      r == RouteEvent(events[Len(events)])
  IN  /\ handledNow' = events
      /\ session' = [session EXCEPT !.handled = @ + Len(events)]
      /\ history' = HistoryAfterAll(history, events)
      /\ IF events = <<>>
         THEN UNCHANGED <<sends, sentText, failed, last>>
         ELSE /\ sends' = SendsOf(r, distro_list, user_groups, muted_users)
              /\ sentText' = TextOf(r)
              /\ failed' \in SUBSET MayFail(r, distro_list, user_groups, muted_users)
              /\ last' = [op |-> "rx", type |-> events[Len(events)].type,
                          value |-> events[Len(events)].value]

\* process_js8call_messages, entered with the link connected: recv returns
\* some of the bytes on the wire, or b'' once the endpoint has closed, or it
\* raises; recv blocks while the wire is empty and the endpoint is open
process_js8call_messages ==
  \/ \E n \in 1..Len(wire) :
       /\ chunk' = SubSeq(wire, 1, n)
       /\ wire' = SubSeq(wire, n + 1, Len(wire))
       /\ IF DecodeFails(chunk')
          THEN /\ js8call_connected' = FALSE
               /\ handledNow' = <<>>
               /\ UNCHANGED <<history, sends, sentText, failed, last, session>>
          ELSE /\ js8call_connected' = TRUE
               /\ ProcessData(chunk')
       /\ UNCHANGED <<js8call_socket, leaked, peer>>
  \/ /\ wire = <<>>
     /\ peer = "closed"
     /\ chunk' = <<>>
     /\ js8call_connected' = FALSE
     /\ handledNow' = <<>>
     /\ UNCHANGED <<history, sends, sentText, failed, last, js8call_socket, leaked, peer, wire,
                    session>>
  \/ /\ chunk' = <<>>
     /\ js8call_connected' = FALSE
     /\ handledNow' = <<>>
     /\ UNCHANGED <<history, sends, sentText, failed, last, js8call_socket, leaked, peer, wire,
                    session>>

\* js8call_loop, lines 250-251
LoopConnect ==
  /\ lpc = "top"
  /\ IF ~js8call_connected
     THEN connect_js8call
     ELSE UNCHANGED <<js8call_connected, js8call_socket, leaked, peer, wire, chunk, handledNow,
                      session>>
  /\ lpc' = "mid"
  /\ UNCHANGED <<raceVars, registry, storage, storeError, history, sends, sentText, failed, last>>

\* js8call_loop, line 262 raising (no socket can be made): the except of
\* line 255 is entered
LoopConnectRaises ==
  /\ lpc = "top"
  /\ ~js8call_connected
  /\ lpc' = "backoff"
  /\ UNCHANGED <<raceVars, registry, storage, storeError, history, sends, sentText, failed, last,
                 js8call_connected, js8call_socket, leaked, peer, wire, chunk, handledNow,
                 session>>

\* js8call_loop, lines 252-253
LoopProcess ==
  /\ lpc = "mid"
  /\ IF js8call_connected
     THEN process_js8call_messages
     ELSE UNCHANGED <<js8call_connected, js8call_socket, leaked, peer, wire, chunk,
                      handledNow, session, history, sends, sentText, failed, last>>
  /\ lpc' = "sleep"
  /\ UNCHANGED <<raceVars, registry, storage, storeError>>

\* the arguments of the two time.sleep calls of js8call_loop (254, 257)
PollInterval == 1
Backoff == 5

\* the time the loop waits in the sleep it is in
SleepTime ==
  IF lpc = "sleep" THEN PollInterval ELSE IF lpc = "backoff" THEN Backoff ELSE 0

\* js8call_loop, line 254: time.sleep(1)
LoopSleep ==
  /\ lpc = "sleep"
  /\ lpc' = "top"
  /\ UNCHANGED <<raceVars, registry, storage, storeError, history, sends, sentText, failed, last,
                 js8call_connected, js8call_socket, leaked, peer, wire, chunk, handledNow,
                 session>>

\* js8call_loop, line 257: time.sleep(5)
LoopBackoff ==
  /\ lpc = "backoff"
  /\ lpc' = "top"
  /\ UNCHANGED <<raceVars, registry, storage, storeError, history, sends, sentText, failed, last,
                 js8call_connected, js8call_socket, leaked, peer, wire, chunk, handledNow,
                 session>>

\* the radio endpoint closes its end
EndpointClose ==
  /\ peer = "open"
  /\ peer' = "closed"
  /\ UNCHANGED <<raceVars, registry, storage, storeError, history, sends, sentText, failed, last,
                 js8call_connected, js8call_socket, leaked, wire, chunk, handledNow, session,
                 lpc>>

\* the interpreter finalizes a socket nothing refers to, which closes it
Finalize ==
  /\ leaked > 0
  /\ leaked' = leaked - 1
  /\ UNCHANGED <<raceVars, registry, storage, storeError, history, sends, sentText, failed, last,
                 js8call_connected, js8call_socket, peer, wire, chunk, handledNow, session,
                 lpc>>

NextLink ==
  LoopConnect \/ LoopConnectRaises \/ LoopProcess \/ LoopSleep \/ LoopBackoff
    \/ EndpointClose \/ Finalize

\* ----------------------------------------------------------- behaviour
\* the state after __init__: setup_state has loaded one of the stores, in
\* full or up to the point where the load raised
Init ==
  /\ \E s \in InitialStores :
       /\ storage = s
       /\ \E done \in SUBSET (DOMAIN s) :
            \E part \in SUBSET (DOMAIN s \ done) : \E half \in SUBSET (DOMAIN s \ done) :
              /\ Cardinality(part \cup half) <= 1
              /\ storeError = IF done = DOMAIN s THEN <<>> ELSE <<"load">>
              /\ distro_list = load_state_from_storage(s, done, part, half)[1]
              /\ user_groups = load_state_from_storage(s, done, part, half)[2]
              /\ muted_users = load_state_from_storage(s, done, part, half)[3]
  /\ history = <<>>
  /\ sends = NoSends
  /\ sentText = [kind |-> "none"]
  /\ failed = {}
  /\ last = [op |-> "init"]
  /\ LinkInit

Add ==
  UNCHANGED <<linkVars, raceVars>> /\ \E u \in Users : add_to_distro_list(u, TRUE)
Remove ==
  UNCHANGED <<linkVars, raceVars>> /\ \E u \in Users : remove_from_distro_list(u, TRUE)
Join ==
  UNCHANGED <<linkVars, raceVars>> /\ \E u \in Users : \E gs \in JoinArgs : add_user_to_groups(u, gs, TRUE)
Leave ==
  UNCHANGED <<linkVars, raceVars>> /\ \E u \in Users : \E g \in LeaveArgs : remove_user_from_group(u, g, TRUE)
\* an event the link has decoded is handled
Receive ==
  UNCHANGED <<linkVars, raceVars>> /\ \E d \in RadioEvents : handle_js8call_message(d)

Next == Add \/ Remove \/ Join \/ Leave \/ Receive

\* the bot with a store that accepts every write
Spec == Init /\ [][Next]_vars


\* ---- the registry commands over a store whose writes may raise
\* the outcomes a write to the store may have: it raises at most
\* MaxSaveErrors times in a run
SaveOutcomes ==
  IF Cardinality({i \in 1..Len(storeError) : storeError[i] = "save"}) < MaxSaveErrors
  THEN BOOLEAN ELSE {TRUE}

StoreAdd ==
  UNCHANGED <<linkVars, raceVars>> /\ \E u \in Users : \E ok \in SaveOutcomes : add_to_distro_list(u, ok)
StoreRemove ==
  UNCHANGED <<linkVars, raceVars>> /\ \E u \in Users : \E ok \in SaveOutcomes : remove_from_distro_list(u, ok)
StoreJoin ==
  /\ UNCHANGED <<linkVars, raceVars>>
  /\ \E u \in Users : \E gs \in JoinArgs : \E ok \in SaveOutcomes : add_user_to_groups(u, gs, ok)
StoreLeave ==
  /\ UNCHANGED <<linkVars, raceVars>>
  /\ \E u \in Users : \E g \in LeaveArgs : \E ok \in SaveOutcomes : remove_user_from_group(u, g, ok)

NextStore == StoreAdd \/ StoreRemove \/ StoreJoin \/ StoreLeave

SpecStore == Init /\ [][NextStore]_vars

\* ---- the radio thread's fan-out beside the command handlers (run, 233-239)
\* run() starts js8call_loop in a thread of its own, so _send_to_users runs
\* while the handlers of the commands change the registry; the source takes
\* no lock.  The loop  for user in self.distro_list  is a set iterator: it
\* walks the slots of the hash table, and each step of it raises RuntimeError
\* when the size of the set differs from the size at the start of the loop,
\* and otherwise yields the user of the next slot in use.  The slot of a user
\* follows from its hash, so the users lie in some order that the code does
\* not choose; a user added during the loop is yielded when its slot lies
\* after the position of the iterator.

\* the orders the slots of the users may have
SlotOrders ==
  {f \in [1..NumUsers -> Users] : \A i, j \in 1..NumUsers : f[i] = f[j] => i = j}

\* the slots in use after the position of the iterator
SlotsAhead == {i \in (fanout.pos + 1)..NumUsers : fanout.order[i] \in distro_list}

\* the messages handed to _send_to_users in this specification
RaceEvents ==
  {[type |-> "RX.DIRECTED", value |-> v] : v \in {vDirect, vUrgent}}

\* the arguments of /join and of /leave tried beside a fan-out
RaceJoinArgs == {<<gT>>}
RaceLeaveArgs == {gT}

\* lines 364-365: handle_js8call_message has routed the event and
\* _send_to_users starts its loop
FanoutStart ==
  /\ fanout.phase = "idle"
  /\ Len(history) < MaxHistory
  /\ \E d \in RaceEvents : \E r \in {RouteEvent(d)} :
       /\ Forwarded(r)
       /\ \E order \in SlotOrders :
            fanout' = [fanout EXCEPT
                         !.phase = "iter", !.r = r, !.used = Cardinality(distro_list),
                         !.order = order, !.pos = 0, !.resolved = {}]
       /\ eligibleSeen' = {Recipients(distro_list, user_groups, muted_users, r.group)}
  /\ UNCHANGED <<registry, storage, storeError, history, sends, sentText,
                 failed, last, linkVars>>

\* lines 365-367: the iterator yields a user, and the test of line 366 reads
\* the registry as it is now
FanoutYield ==
  /\ fanout.phase = "iter"
  /\ Cardinality(distro_list) = fanout.used
  /\ SlotsAhead # {}
  /\ LET i == CHOOSE k \in SlotsAhead : \A j \in SlotsAhead : k <= j
         u == fanout.order[i]
     IN  fanout' = [fanout EXCEPT
                      !.pos = i,
                      !.resolved =
                        IF u \in Recipients(distro_list, user_groups, muted_users,
                                            fanout.r.group)
                        THEN @ \cup {u} ELSE @]
  /\ UNCHANGED <<registry, storage, storeError, history, sends, sentText,
                 failed, last, linkVars, eligibleSeen>>

\* line 365 raises RuntimeError (set changed size during iteration): it
\* leaves _send_to_users and forward_*_message and is logged by the except
\* of line 338; the sends already submitted run on in the pool without
\* being waited for (line 368 is not reached), no history row is written
FanoutRaise ==
  /\ fanout.phase = "iter"
  /\ Cardinality(distro_list) # fanout.used
  /\ fanout' = [NoFanout EXCEPT !.abandoned = fanout.abandoned \cup fanout.resolved,
                                !.unrecorded = TRUE]
  /\ eligibleSeen' = {}
  /\ sends' = [u \in Users |-> IF u \in fanout.resolved THEN 1 ELSE 0]
  /\ sentText' = Formatted(fanout.r)
  /\ failed' = {}
  /\ last' = [op |-> "rx", type |-> "RX.DIRECTED", value |-> <<>>]
  /\ UNCHANGED <<registry, storage, storeError, history, linkVars>>

\* lines 365, 368 and 345/352/359: the loop ends, the futures are waited
\* for and the history row is written
FanoutDone ==
  /\ fanout.phase = "iter"
  /\ Cardinality(distro_list) = fanout.used
  /\ SlotsAhead = {}
  /\ fanout' = [NoFanout EXCEPT !.abandoned = fanout.abandoned,
                                !.unrecorded = fanout.unrecorded]
  /\ eligibleSeen' = {}
  /\ sends' = [u \in Users |-> IF u \in fanout.resolved THEN 1 ELSE 0]
  /\ sentText' = Formatted(fanout.r)
  /\ \E bad \in SUBSET fanout.resolved :
       /\ failed' = bad
       /\ history' = forward_message(history, fanout.r, bad)
  /\ last' = [op |-> "rx", type |-> "RX.DIRECTED", value |-> <<>>]
  /\ UNCHANGED <<registry, storage, storeError, linkVars>>

\* a send that an aborted call had submitted returns in its pool thread
SendReturns ==
  /\ \E u \in fanout.abandoned :
       fanout' = [fanout EXCEPT !.abandoned = @ \ {u}]
  /\ UNCHANGED <<registry, storage, storeError, history, sends, sentText,
                 failed, last, linkVars, eligibleSeen>>

\* a command handler has run while the loop of _send_to_users stands between
\* two of its steps: the eligible set of the registry it leaves is noted
Beside ==
  /\ fanout' = fanout
  /\ eligibleSeen' =
       IF fanout.phase = "iter"
       THEN eligibleSeen \cup {Recipients(distro_list', user_groups', muted_users',
                                          fanout.r.group)}
       ELSE eligibleSeen
  /\ UNCHANGED linkVars

RaceAdd == (\E u \in Users : add_to_distro_list(u, TRUE)) /\ Beside
RaceRemove == (\E u \in Users : remove_from_distro_list(u, TRUE)) /\ Beside
RaceJoin ==
  (\E u \in Users : \E gs \in RaceJoinArgs : add_user_to_groups(u, gs, TRUE)) /\ Beside
RaceLeave ==
  (\E u \in Users : \E g \in RaceLeaveArgs : remove_user_from_group(u, g, TRUE)) /\ Beside

NextRace ==
  FanoutStart \/ FanoutYield \/ FanoutRaise \/ FanoutDone
    \/ SendReturns \/ RaceAdd \/ RaceRemove \/ RaceJoin \/ RaceLeave

\* the start with the whole of OldStore loaded
InitLink ==
  /\ storage = OldStore
  /\ storeError = <<>>
  /\ distro_list = LoadAll(OldStore)[1]
  /\ user_groups = LoadAll(OldStore)[2]
  /\ muted_users = LoadAll(OldStore)[3]
  /\ history = <<>>
  /\ sends = NoSends
  /\ sentText = [kind |-> "none"]
  /\ failed = {}
  /\ last = [op |-> "init"]
  /\ LinkInit

\* the link loop alone, over the registry the start has loaded
SpecLink == InitLink /\ [][NextLink]_vars

\* the radio thread and the command handlers, interleaved
SpecRace == InitLink /\ [][NextRace]_vars

\* ---- the classifier on every short value
Alphabet == {"T", "E", "x", "X", ":", " "}
Values == UNION {[1..n -> Alphabet] : n \in 0..MaxLen}

\* an RX.DIRECTED event with any value over the alphabet has arrived and no
\* user is subscribed
InitRoute ==
  /\ distro_list = {}
  /\ user_groups = NoGroups
  /\ muted_users = NoGroups
  /\ storage = EmptyStore
  /\ storeError = <<>>
  /\ history = <<>>
  /\ sends = NoSends
  /\ sentText = [kind |-> "none"]
  /\ failed = {}
  /\ \E v \in Values : last = [op |-> "input", type |-> "RX.DIRECTED", value |-> v]
  /\ LinkInit

ClassifyInput ==
  /\ last.op = "input"
  /\ handle_js8call_message([type |-> last.type, value |-> last.value])
  /\ UNCHANGED <<linkVars, raceVars>>

NextRoute == ClassifyInput

SpecRoute == InitRoute /\ [][NextRoute]_vars

\* ---------------------------------------------------------------- claims
\* the users the latest handler submitted a send for
Sent == {u \in Users : sends[u] > 0}

\* C1: whenever add_to_distro_list(u) runs for a user u that is not in
\* distro_list, it ends with u in distro_list and user_groups[u] equal to
\* exactly the configured default groups.
C1_JoinSeedsExactlyDefaults ==
  [][\A u \in Users :
       (last'.op = "add" /\ last'.user = u /\ u \notin distro_list)
         => (u \in distro_list' /\ user_groups'[u] = Range(default_groups))]_vars

\* a user has just been added, after some message was fanned out
C1_Witness ==
  /\ last.op = "add"
  /\ sentText.kind = "welcome"
  /\ last.user \in distro_list
  /\ history # <<>>

\* C2: remove_from_distro_list(u) for a user u of distro_list removes u from
\* distro_list, user_groups and muted_users in one step; a second
\* remove_from_distro_list(u) right after it changes nothing of the registry
\* and sends u the "not in the group" notice.
C2_LeaveRemovesAll ==
  [][\A u \in Users :
       /\ (last'.op = "remove" /\ last'.user = u /\ u \in distro_list)
            => /\ u \notin distro_list'
               /\ user_groups'[u] = {}
               /\ muted_users'[u] = {}
       /\ (last'.op = "remove" /\ last'.user = u
             /\ last.op = "remove" /\ last.user = u)
            => /\ registry' = registry
               /\ sentText'.kind = "not_in_list"
               /\ sends' = SendTo(u)]_vars

\* a user that had a muted group has just been removed
C2_Witness ==
  /\ last.op = "remove"
  /\ sentText.kind = "removed"
  /\ last.user \notin distro_list
  /\ last.user \in DOMAIN OldStore
  /\ OldStore[last.user].muted_groups # <<>>
  /\ distro_list # {}

\* C3: after a group or urgent message to G has been handled, a send was
\* submitted, once, for exactly the users that are in distro_list, have G in
\* user_groups and do not have G in muted_users, in the registry as it is at
\* that dispatch.
C3_GroupRecipients ==
  (last.op = "rx" /\ sentText.kind \in {"group", "urgent"})
    => \A u \in Users :
         sends[u] = IF /\ u \in distro_list
                       /\ sentText.group \in user_groups[u]
                       /\ sentText.group \notin muted_users[u]
                    THEN 1 ELSE 0

\* a second dispatch that reaches one member and skips a member that muted
\* the group
C3_Witness ==
  /\ last.op = "rx"
  /\ last.value = vGroup
  /\ Len(history) = 2
  /\ \E u \in distro_list : sends[u] = 1
  /\ \E v \in distro_list :
       gTE \in user_groups[v] /\ gTE \in muted_users[v] /\ sends[v] = 0

\* C4: a direct message is submitted to exactly the users of distro_list, and
\* a forwarded message of any scope is submitted to no user outside
\* distro_list.
C4_OnlyDistroList ==
  last.op = "rx"
    => /\ Sent \subseteq distro_list
       /\ sentText.kind = "direct"
            => \A u \in Users : sends[u] = IF u \in distro_list THEN 1 ELSE 0

\* a direct message fanned out while one user is in distro_list and another
\* is not
C4_Witness ==
  /\ last.op = "rx"
  /\ last.value = vDirect
  /\ Sent # {}
  /\ distro_list # Users

\* the content of a value: the text after its first colon, trimmed
ContentOf(value) ==
  LET k == CHOOSE i \in 1..Len(value) :
             value[i] = ":" /\ \A j \in 1..(i - 1) : value[j] # ":"
  IN  Strip(SubSeq(value, k + 1, Len(value)))

\* w occurs in s, letter case ignored
OccursIgnoringCase(s, w) ==
  \E i \in 1..(Len(s) - Len(w) + 1) :
    \A k \in 1..Len(w) : LowerChar(s[i + k - 1]) = LowerChar(w[k])

\* the value has a colon and its content has a blocked word in it
IsBlockedValue(value) ==
  /\ \E i \in 1..Len(value) : value[i] = ":"
  /\ \E i \in 1..Len(blocked_words) :
       OccursIgnoringCase(ContentOf(value), blocked_words[i])

\* C5: handling an RX.DIRECTED event whose content has a blocked word in it,
\* in any letter case, submits no send, writes no history row and leaves the
\* registry as it was.
C5_BlockedDropped ==
  [][(last'.op = "rx" /\ last'.type = "RX.DIRECTED" /\ IsBlockedValue(last'.value))
       => /\ sends' = NoSends
          /\ history' = history
          /\ registry' = registry]_vars

\* a blocked message to a group that has a member that would have received it
C5_Witness ==
  /\ last.op = "rx"
  /\ last.value = vBlocked
  /\ \E u \in distro_list : gTE \in user_groups[u] /\ gTE \notin muted_users[u]
  /\ sends = NoSends

\* u is an eligible recipient of a message to G (DIRECT: a direct message)
Eligible(u, G) ==
  /\ u \in distro_list
  /\ G = DIRECT \/ (G \in user_groups[u] /\ G \notin muted_users[u])

\* C6: whatever subset of the sends of a fan-out fails, the fan-out submits
\* exactly one send for every eligible user and exactly one history row is
\* written for the message.
C6_FailuresIsolated ==
  [][(last'.op = "rx" /\ sentText'.kind \in {"group", "urgent", "direct"})
       => /\ \A u \in Users :
               sends'[u] = IF Eligible(u, sentText'.group) THEN 1 ELSE 0
          /\ Len(history') = Len(history) + 1
          /\ SubSeq(history', 1, Len(history)) = history
          /\ history'[Len(history')] =
               [sender |-> sentText'.sender, receiver |-> sentText'.group,
                message |-> sentText'.message]]_vars

\* a fan-out to two users in which exactly one send failed
C6_Witness ==
  /\ last.op = "rx"
  /\ Cardinality(Sent) >= 2
  /\ Cardinality(failed) = 1
  /\ history # <<>>

\* C8: saving the registry and loading the saved snapshot into an empty
\* registry gives back the same distro_list, the same user_groups and the
\* same muted_users for every user.
C8_SaveLoadRoundTrip ==
  LoadAll(save_state_to_storage(storage, distro_list, user_groups,
                                muted_users, TRUE)) = registry

\* a saved registry with a user that has groups and muted groups, and a
\* user that is not in distro_list
C8_Witness ==
  /\ last.op \in {"add", "join", "leave"}
  /\ storage = Snapshot(distro_list, user_groups, muted_users)
  /\ \E u \in distro_list : user_groups[u] # {} /\ muted_users[u] # {}
  /\ distro_list # Users

\* C10: add_user_to_groups(u, groups) for a user outside distro_list changes
\* nothing and tells the user to join first; for a user of distro_list it
\* adds to user_groups[u] exactly the requested names that are in one of the
\* two catalogs, and changes nothing else.
C10_JoinGroups ==
  [][\A u \in Users :
       (last'.op = "join" /\ last'.user = u)
         => IF u \notin distro_list
            THEN /\ registry' = registry
                 /\ sentText'.kind = "join_first"
                 /\ sends' = SendTo(u)
            ELSE /\ user_groups'[u] =
                      user_groups[u] \cup
                        {g \in Range(last'.groups) :
                           \/ \E i \in 1..Len(js8groups) : js8groups[i] = g
                           \/ \E i \in 1..Len(js8urgent) : js8urgent[i] = g}
                 /\ \A v \in Users \ {u} : user_groups'[v] = user_groups[v]
                 /\ distro_list' = distro_list
                 /\ muted_users' = muted_users]_vars

\* a join of a known and an unknown name: the known one was added only
C10_Witness ==
  /\ last.op = "join"
  /\ last.groups = <<gTE, gZZ>>
  /\ sentText.kind = "added_to_groups"
  /\ gTE \in user_groups[last.user]
  /\ gZZ \notin user_groups[last.user]


\* p is a prefix of s
IsPrefix(p, s) == Len(p) <= Len(s) /\ \A k \in 1..Len(p) : s[k] = p[k]

\* the text before the first colon of a value, trimmed
SenderOf(value) ==
  LET k == CHOOSE i \in 1..Len(value) :
             value[i] = ":" /\ \A j \in 1..(i - 1) : value[j] # ":"
  IN  Strip(SubSeq(value, 1, k - 1))

\* the positions of the catalog names that content starts with
Matches(catalog, content) ==
  {i \in 1..Len(catalog) : IsPrefix(catalog[i], content)}

Least(S) == CHOOSE i \in S : \A j \in S : i <= j

\* the scope, destination and body the priority rule gives a content
Expected(content) ==
  LET ord == Matches(js8groups, content)
      urg == Matches(js8urgent, content)
      og  == js8groups[Least(ord)]
      ug  == js8urgent[Least(urg)]
  IN  IF ord # {}
        THEN [kind |-> "group", group |-> og,
              message |-> Strip(SubSeq(content, Len(og) + 1, Len(content)))]
      ELSE IF urg # {}
        THEN [kind |-> "urgent", group |-> ug,
              message |-> Strip(SubSeq(content, Len(ug) + 1, Len(content)))]
      ELSE [kind |-> "direct", group |-> DIRECT, message |-> content]

sN0CALL == <<"N", "0", "C", "A", "L", "L">>
sTEAM == <<"T", "E", "A", "M">>
sStatusOk == <<"s", "t", "a", "t", "u", "s", " ", "o", "k">>

\* C9: an accepted RX.DIRECTED content is a group message to the first
\* ordinary name, in catalog order, that it starts with; else an urgent
\* message to the first urgent name it starts with; else a direct message
\* with the whole content as its body.  For group and urgent the body is the
\* content without that prefix, trimmed; 'N0CALL:TEAM status ok' with TEAM
\* in the ordinary catalog gives sender N0CALL, group TEAM, body 'status ok'.
C9_ScopePriority ==
  /\ (last.op = "rx" /\ last.type = "RX.DIRECTED"
        /\ (\E i \in 1..Len(last.value) : last.value[i] = ":")
        /\ ~IsBlockedValue(last.value))
       => LET e == Expected(ContentOf(last.value))
          IN  /\ sentText = [kind |-> e.kind, sender |-> SenderOf(last.value),
                             group |-> e.group, message |-> e.message]
              /\ history = <<[sender |-> SenderOf(last.value),
                              receiver |-> e.group, message |-> e.message]>>
  /\ Classify(<<sTEAM>>, <<>>, <<>>, sN0CALL \o <<":">> \o sTEAM \o <<" ">> \o sStatusOk)
       = [scope |-> "group", sender |-> sN0CALL, group |-> sTEAM,
          message |-> sStatusOk]

\* a content that starts with two ordinary names and with the urgent name
\* has gone to the first ordinary name of the catalog
C9_Witness ==
  /\ last.op = "rx"
  /\ last.value = <<":", "T", "E", "T", "x">>
  /\ history = <<[sender |-> <<>>, receiver |-> gTET, message |-> <<"x">>]>>


\* the bytes of a line are a complete JSON document (blanks around it aside)
WellFormedLine(bytes) == Strip(bytes) = <<"{", "d", "}">>

\* the well-formed lines among the lines of a chunk of bytes, in order
RECURSIVE WellFormedLines(_)
WellFormedLines(lines) ==
  IF lines = <<>> THEN <<>>
  ELSE IF WellFormedLine(Head(lines))
    THEN <<Head(lines)>> \o WellFormedLines(Tail(lines))
  ELSE WellFormedLines(Tail(lines))

\* a recv of this step has returned bytes
RecvReturnedData ==
  /\ lpc = "mid" /\ lpc' = "sleep"
  /\ js8call_connected
  /\ wire' # wire

\* C7: when a read returns lines of which some are not valid JSON, those
\* lines are discarded, the link stays marked connected, and every
\* well-formed line of the read is handled.
C7_MalformedLineDiscarded ==
  [][RecvReturnedData
       => /\ js8call_connected'
          /\ Len(handledNow') = Len(WellFormedLines(SplitOn(chunk', "\n")))
          /\ \A i \in 1..Len(handledNow') : handledNow'[i].type = "RX.DIRECTED"]_vars

\* C11: remove_user_from_group(u, g) for a user u of distro_list that has g
\* in user_groups removes that one membership and leaves u's other
\* memberships, muted_users, distro_list and every other user's state as they
\* were; in every other case it changes nothing of the registry and sends u
\* the "not in the group" notice.
C11_LeaveGroup ==
  [][\A u \in Users :
       (last'.op = "leave" /\ last'.user = u)
         => IF u \in distro_list /\ last'.group \in user_groups[u]
            THEN /\ user_groups'[u] = user_groups[u] \ {last'.group}
                 /\ \A v \in Users \ {u} : user_groups'[v] = user_groups[v]
                 /\ muted_users' = muted_users
                 /\ distro_list' = distro_list
            ELSE /\ registry' = registry
                 /\ sentText'.kind = "not_in_group"
                 /\ sends' = SendTo(u)]_vars

\* a user has left one of its two groups and still has a muted group
C11_Witness ==
  /\ last.op = "leave"
  /\ sentText.kind = "removed_from_group"
  /\ last.group \notin user_groups[last.user]
  /\ user_groups[last.user] # {}
  /\ muted_users[last.user] # {}

\* the stored snapshot describes the registry in memory
InSync == LoadAll(storage) = registry

\* C12 as stated: whenever no handler is running and no write to the store
\* has failed, the stored snapshot describes exactly distro_list, user_groups
\* and muted_users.
C12_WriteThrough == (\A i \in 1..Len(storeError) : storeError[i] # "save") => InSync

\* C12 amended: whenever no handler is running, the load at start-up has not
\* failed and no write to the store has failed, the stored snapshot describes
\* exactly distro_list, user_groups and muted_users.
C12_WriteThroughAfterLoad == (storeError = <<>>) => InSync

\* a join has changed the registry of a user loaded from the store, and
\* neither the load nor a write has failed
C12_Witness ==
  /\ storeError = <<>>
  /\ last.op = "join"
  /\ sentText.kind = "added_to_groups"
  /\ storage # OldStore
  /\ \E u \in DOMAIN storage : storage[u].muted_groups # <<>>
  /\ Cardinality(DOMAIN storage) >= 2

\* C13: when the load at start-up has raised, at whatever point, the bot
\* starts with distro_list, user_groups and muted_users all empty.
C13_FailedLoadStartsEmpty ==
  (last.op = "init" /\ storeError = <<"load">>)
    => /\ distro_list = {}
       /\ user_groups = NoGroups
       /\ muted_users = NoGroups

\* the loop of a _send_to_users call ends in this step and its history row
\* is written
FanoutCompletes ==
  /\ fanout.phase = "iter"
  /\ fanout'.phase = "idle"
  /\ Len(history') = Len(history) + 1

\* C14: under any interleaving of the command handlers with a running
\* fan-out, the set of users the fan-out submits a send for is the eligible
\* set of one registry state that existed between two handlers while it ran,
\* never a mixture of several.
C14_FanoutAtomic ==
  [][FanoutCompletes => fanout.resolved \in eligibleSeen]_vars

\* the handling of a forwarded message ends in this step
FanoutEnds == fanout.phase = "iter" /\ fanout'.phase = "idle"

\* C19: every forwarded RX.DIRECTED message writes exactly one history row,
\* with DIRECT or the group name as its label, also with no eligible user and
\* also when a command handler runs beside its fan-out.
C19_OneHistoryRow ==
  [][FanoutEnds
       => history' = Append(history, [sender |-> fanout.r.sender,
                                       receiver |-> fanout.r.group,
                                       message |-> fanout.r.message])]_vars

\* a send of the message being fanned out is submitted in this step
SendSubmitted ==
  /\ fanout.phase = "iter"
  /\ fanout'.phase = "iter"
  /\ fanout'.resolved # fanout.resolved

\* C15: radio messages are handled in the order received: when a send of a
\* message is submitted, every send of each forwarded message received
\* before it has returned and the history row of each has been written.
C15_InOrder ==
  [][SendSubmitted => (fanout.abandoned = {} /\ ~fanout.unrecorded)]_vars

\* the loop is in one of its two sleeps
Sleeping == lpc \in {"sleep", "backoff"}

\* C16: whenever the loop sleeps with the link marked disconnected (after a
\* read error, a peer close or a failed connect) it sleeps 5 time units
\* before the next connect, and whenever it sleeps with the link connected
\* it sleeps 1 time unit before the next read.
C16_Backoff ==
  Sleeping => SleepTime = IF js8call_connected THEN 1 ELSE 5

\* a recv has returned the last of the bytes the endpoint sent on the
\* connection
AllRead ==
  /\ lpc = "sleep"
  /\ session.stream # <<>>
  /\ wire = <<>>
  /\ chunk # <<>>

\* C17, the lines of a connection: once the link is connected, the lines
\* the endpoint sends are handled: when the last byte of the connection has
\* been read, every well-formed line sent on it has been handled.
C17_LinesHandled ==
  AllRead => session.handled = Len(WellFormedLines(SplitOn(session.stream, "\n")))

\* the bytes after the last newline of a read, and those before its first
LastSegment(bytes) == SplitOn(bytes, "\n")[Len(SplitOn(bytes, "\n"))]
FirstSegment(bytes) == SplitOn(bytes, "\n")[1]

\* this step is a read that returns the rest of a line whose first bytes
\* ended the read before it, on the same connection
SplitLineArrives ==
  /\ RecvReturnedData
  /\ Len(wire) < Len(session.stream)
  /\ LastSegment(chunk) # <<>>
  /\ ~WellFormedLine(LastSegment(chunk))
  /\ WellFormedLine(LastSegment(chunk) \o FirstSegment(chunk'))

\* C18: when a JSON line arrives split over two consecutive reads, the
\* second read handles it, once, as one message, ahead of the other lines of
\* that read.
C18_LineFraming ==
  [][SplitLineArrives
       => /\ handledNow' # <<>>
          /\ handledNow'[1] = json_loads(LastSegment(chunk) \o FirstSegment(chunk'))
          /\ Len(handledNow') =
               1 + Len(WellFormedLines(Tail(SplitOn(chunk', "\n"))))]_vars

\* C20: between two handlers, after any sequence of the load, the commands
\* and fan-outs, every user with a group in user_groups or in muted_users is
\* in distro_list.
C20_RecordsOnlyForSubscribers ==
  \A u \in Users :
    (user_groups[u] # {} \/ muted_users[u] # {}) => u \in distro_list

\* a user that had groups and a muted group has been removed after a
\* fan-out, and another user with a group is still subscribed
C20_Witness ==
  /\ last.op = "remove"
  /\ sentText.kind = "removed"
  /\ last.user \in DOMAIN OldStore
  /\ storeError = <<>>
  /\ last.user \notin distro_list
  /\ history # <<>>
  /\ \E v \in distro_list : user_groups[v] # {}

\* the sockets the bot holds open
OpenHandles == Referred + leaked

\* js8call_loop calls connect_js8call in this step
Connects == lpc = "top" /\ lpc' = "mid" /\ ~js8call_connected

\* C21: at most one socket to the endpoint is open at any time, and when
\* connect_js8call is called no socket of an earlier connection is open any
\* more.
C21_OneHandle ==
  [][(Connects => OpenHandles = 0) /\ OpenHandles' <= 1]_vars

====
